---------------------------- MODULE Spec2Model ----------------------------
(***************************************************************************)
(* Model of the MQTT client of ue-app/Source/MQTTClient:                   *)
(*   - UMQTTClient  (MQTTClient.cpp 63-210): the owner handle, called from *)
(*     the game thread ("owner context");                                  *)
(*   - FMQTTWorker  (MQTTClient.cpp 221-528): the background runnable, its *)
(*     Run loop, its two MPSC queues and its auto-reset wake event;        *)
(*   - the game thread's task queue, to which the Notify* helpers post     *)
(*     closures (AsyncTask(ENamedThreads::GameThread, ...)).               *)
(*                                                                         *)
(* Two threads of control interleave: the game thread (opc) and the worker *)
(* thread (wpc).  The worker's Run never takes the worker's Mutex, so each *)
(* of its reads and writes of the shared fields is a step of its own.      *)
(* The worker's unlocked read of Host races with the owner's locked write; *)
(* the read is modelled as returning the value before or after the write   *)
(* (both orders of the two steps are explored).                            *)
(***************************************************************************)
EXTENDS Naturals, Sequences, FiniteSets

(* ------------------------------ bounds -------------------------------- *)
\* Owner-context calls that change state (Connect, Disconnect, Publish, Subscribe,
\* Unsubscribe and the setters) over a run
MaxCalls == 3
\* The same, over a run of the fair specification
MaxLiveCalls == 2

(* ------------------------- program constants -------------------------- *)
DefaultPort == 1883
DefaultKeepAlive == 60

(* ------------------------------ inputs -------------------------------- *)
\* Connect(BrokerAddress, BrokerPort, bUseTLS): an empty and a non-empty host
Targets ==
  { [Host |-> "", Port |-> 1883, bUseTLS |-> FALSE],
    [Host |-> "10.0.0.1", Port |-> 8883, bUseTLS |-> TRUE] }

\* Publish(Topic, Payload, QoS, bRetain)
Msgs ==
  { [Topic |-> "sensors/temp", Payload |-> "21.5", QoS |-> 0, bRetain |-> FALSE],
    [Topic |-> "sensors/hum", Payload |-> "40", QoS |-> 1, bRetain |-> TRUE] }

\* Subscribe(TopicFilter, QoS) / Unsubscribe(TopicFilter)
Filters == { "sensors/#" }

ClientReason == "Client requested disconnect"

VARIABLES
  \* ---- UMQTTClient (owner handle) ----
  client,        \* Impl, Worker (non-null?), configuration fields, bConnected
  ownerDestroyed,\* BeginDestroy has begun: the weak owner pointer resolves to null
  opc,           \* position of the game thread inside an owner-context call
  oarg,          \* target argument of the Connect call in progress
  lastCall,      \* last completed owner-context call and its return value
  fault,         \* "none", or how the process crashed
  \* ---- FMQTTWorker ----
  Thread,        \* "none" | "running" | "joined" | "killed"
  WakeEvent,     \* auto-reset event: TRUE = signalled
  OutgoingMessages,
  SubscriptionRequests,
  target,        \* Host, Port, bUseTLS
  creds,         \* Username, Password, ClientId, KeepAliveSeconds
  bStopRequested,
  bConnected,
  bShutdownComplete,
  wpc,           \* position of the worker thread in Run
  Out,           \* Run's local FMQTTOutgoing Out
  \* ---- game thread task queue ----
  posted,        \* every task posted by AsyncTask, in posting order
  nDelivered,    \* how many of them the game thread has run
  \* ---- history, for stating the properties ----
  published,     \* messages accepted by Publish, in call order
  subscribed,    \* subscription requests accepted, in call order
  subsDone,      \* subscription requests dequeued by the worker, in order
  nCalls,              \* owner-context calls counted against MaxCalls
  nEstablished,        \* times the worker has set bConnected
  nDeliveredAtDestroy, \* nDelivered when BeginDestroy began
  connectEntry,        \* the host, #notifications posted and #Disconnect calls
                       \* entered when the last Connect was accepted
  disconnectEntry,     \* bConnected, #Disconnected posted and nEstablished when the
                       \* last Disconnect was entered, and how many Disconnect
                       \* calls have been entered
  passesAfterStop      \* loop passes begun (Wait entered) with the stop flag set

vars == << client, ownerDestroyed, opc, oarg, lastCall, fault, Thread, WakeEvent,
           OutgoingMessages, SubscriptionRequests, target, creds, bStopRequested,
           bConnected, bShutdownComplete, wpc, Out, posted, nDelivered, published,
           subscribed, subsDone, nCalls, nEstablished, nDeliveredAtDestroy, connectEntry,
           disconnectEntry, passesAfterStop >>

ownerVars == << client, ownerDestroyed, opc, oarg, lastCall, fault >>
workerCtl == << Thread, wpc, Out, bShutdownComplete >>
queueVars == << OutgoingMessages, SubscriptionRequests >>
histVars  == << published, subscribed, subsDone, nCalls, nEstablished,
                nDeliveredAtDestroy, connectEntry, disconnectEntry, passesAfterStop >>

(* ------------------------------ helpers ------------------------------- *)
NoTarget == [Host |-> "", Port |-> DefaultPort, bUseTLS |-> FALSE]

NoMsg == [Topic |-> "", Payload |-> "", QoS |-> 0, bRetain |-> FALSE]

EmptyCreds ==
  [Username |-> "", Password |-> "", ClientId |-> "", KeepAliveSeconds |-> DefaultKeepAlive]

\* UMQTTClient::UMQTTClient
NewClient ==
  [Impl |-> TRUE, Worker |-> FALSE, Broker |-> "", Port |-> DefaultPort, bUseTLS |-> FALSE,
   Username |-> "", Password |-> "", ClientId |-> "",
   KeepAliveSeconds |-> DefaultKeepAlive, bConnected |-> FALSE]

\* Impl && Impl->Worker
HasWorker == client.Impl /\ client.Worker

WakeWorkerNoTrigger == WakeEvent' = WakeEvent

\* FEvent::Trigger on the auto-reset event
WakeWorker == WakeEvent' = TRUE

EnqueueFront(q, item) == << item >> \o q

\* TQueue::Enqueue
Enqueue(q, item) == Append(q, item)

DequeueLast(q) == [item |-> q[Len(q)], rest |-> SubSeq(q, 1, Len(q) - 1)]

\* TQueue::Dequeue: the oldest item
Dequeue(q) == [item |-> Head(q), rest |-> Tail(q)]

\* The closure a Notify* helper hands to AsyncTask; `by` is the calling thread
Task(kind, a, b, by) == [kind |-> kind, a |-> a, b |-> b, by |-> by]

NotifyDropped(kind, a, b, by) == posted' = posted

\* Notify*: Owner.Get() is resolved on the calling thread; a null owner drops the
\* notification, otherwise the closure (holding the raw pointer) is posted
Notify(kind, a, b, by) ==
  posted' = IF ownerDestroyed THEN posted ELSE Append(posted, Task(kind, a, b, by))

\* How many notifications of a kind have been posted
Count(kind) == Cardinality({ i \in 1..Len(posted) : posted[i].kind = kind })

IsConnectedWorkerFlag == bConnected

\* UMQTTClient::IsConnected
IsConnectedValue == IF HasWorker THEN bConnected ELSE client.bConnected

\* Return of an owner-context call
Returned(name, value) == lastCall' = [call |-> name, value |-> value]

BoolStr(b) == IF b THEN "true" ELSE "false"


(* --------------------------- initial state ---------------------------- *)
\* FMQTTWorker::FMQTTWorker: the values the constructor gives the worker's fields
WorkerCtor ==
  /\ WakeEvent' = FALSE
  /\ OutgoingMessages' = << >>
  /\ SubscriptionRequests' = << >>
  /\ target' = NoTarget
  /\ creds' = EmptyCreds
  /\ bConnected' = FALSE
  /\ bShutdownComplete' = FALSE
  /\ Out' = NoMsg

Init ==
  /\ client = NewClient
  /\ ownerDestroyed = FALSE
  /\ opc = "idle"
  /\ oarg = NoTarget
  /\ lastCall = [call |-> "none", value |-> "void"]
  /\ fault = "none"
  /\ Thread = "none"
  /\ WakeEvent = FALSE
  /\ OutgoingMessages = << >>
  /\ SubscriptionRequests = << >>
  /\ target = NoTarget
  /\ creds = EmptyCreds
  /\ bStopRequested = FALSE
  /\ bConnected = FALSE
  /\ bShutdownComplete = FALSE
  /\ wpc = "loop_test"
  /\ Out = NoMsg
  /\ posted = << >>
  /\ nDelivered = 0
  /\ published = << >>
  /\ subscribed = << >>
  /\ subsDone = << >>
  /\ nCalls = 0
  /\ nEstablished = 0
  /\ nDeliveredAtDestroy = 0
  /\ connectEntry = [accepted |-> FALSE, host |-> "", n |-> 0, calls |-> 0]
  /\ disconnectEntry = [conn |-> FALSE, n |-> 0, est |-> 0, calls |-> 0]
  /\ passesAfterStop = 0

\* The game thread is between calls and the process has not crashed
OwnerIdle == opc = "idle" /\ fault = "none"

(* ----------------------- UMQTTClient::Connect ------------------------- *)
NeedsWorkerAlways(w) == TRUE

\* Line 84: if (!Impl->Worker)
NeedsWorker(w) == ~w

WorkerKeptAfterFailedStart == TRUE

\* Lines 90-91: delete Impl->Worker; Impl->Worker = nullptr
WorkerAfterFailedStart == FALSE

\* Lines 79-94: record the target on the handle, create and start the worker if
\* there is none.  Impl->Worker is read without testing Impl: after BeginDestroy
\* has reset Impl this dereferences a null TUniquePtr.
ConnectBegin(t, threadOk) ==
  /\ OwnerIdle
  /\ nCalls < MaxCalls
  /\ nCalls' = nCalls + 1
  /\ UNCHANGED << ownerDestroyed, posted, nDelivered, published, subscribed, subsDone,
                  nDeliveredAtDestroy, connectEntry, disconnectEntry, passesAfterStop,
                  nEstablished >>
  /\ IF ~client.Impl
       THEN /\ fault' = "Connect: null Impl"
            /\ client' = [client EXCEPT !.Broker = t.Host, !.Port = t.Port,
                                        !.bUseTLS = t.bUseTLS]
            /\ UNCHANGED << opc, oarg, lastCall, Thread, WakeEvent, OutgoingMessages,
                            SubscriptionRequests, target, creds, bStopRequested,
                            bConnected, bShutdownComplete, wpc, Out >>
       ELSE IF ~NeedsWorker(client.Worker)
         THEN /\ client' = [client EXCEPT !.Broker = t.Host, !.Port = t.Port,
                                          !.bUseTLS = t.bUseTLS]
              /\ opc' = "connect_cfg"
              /\ oarg' = t
              /\ UNCHANGED << lastCall, fault, Thread, WakeEvent, OutgoingMessages,
                              SubscriptionRequests, target, creds, bStopRequested,
                              bConnected, bShutdownComplete, wpc, Out >>
         ELSE /\ WorkerCtor
              /\ fault' = fault
              /\ IF threadOk
                   THEN \* FRunnableThread::Create succeeded: Run starts
                        /\ client' = [client EXCEPT !.Broker = t.Host, !.Port = t.Port,
                                                    !.bUseTLS = t.bUseTLS, !.Worker = TRUE]
                        /\ Thread' = "running"
                        /\ wpc' = "loop_test"
                        /\ bStopRequested' = FALSE
                        /\ opc' = "connect_cfg"
                        /\ oarg' = t
                        /\ lastCall' = lastCall
                   ELSE \* Start failed: delete the worker (its destructor runs
                        \* Shutdown, which sets the stop flag) and return false
                        /\ client' = [client EXCEPT !.Broker = t.Host, !.Port = t.Port,
                                                    !.bUseTLS = t.bUseTLS,
                                                    !.Worker = WorkerAfterFailedStart]
                        /\ Thread' = "none"
                        /\ wpc' = "loop_test"
                        /\ bStopRequested' = TRUE
                        /\ opc' = "idle"
                        /\ oarg' = NoTarget
                        /\ Returned("Connect", "false")

\* Lines 96-103 and FMQTTWorker::Connect (400-412): push the configuration to the
\* worker, record the target under the mutex, wake the worker, return true
ConnectFinish ==
  /\ opc = "connect_cfg" /\ fault = "none"
  /\ creds' = [Username |-> client.Username, Password |-> client.Password,
               ClientId |-> client.ClientId,
               KeepAliveSeconds |-> client.KeepAliveSeconds]
  /\ target' = oarg
  /\ WakeWorker
  /\ opc' = "idle"
  /\ oarg' = NoTarget
  /\ Returned("Connect", "true")
  /\ connectEntry' = [accepted |-> TRUE, host |-> oarg.Host, n |-> Len(posted),
                      calls |-> disconnectEntry.calls]
  /\ UNCHANGED << client, ownerDestroyed, fault, workerCtl, queueVars, bStopRequested,
                  bConnected, posted, nDelivered, published, subscribed, subsDone,
                  nCalls, nEstablished, nDeliveredAtDestroy, disconnectEntry,
                  passesAfterStop >>

(* ---------------------- UMQTTClient::Disconnect ----------------------- *)
DisconnectNotifiesAlways(c) == TRUE

FlagKeptByDisconnect(c) == c

\* Line 424: bConnected = false
FlagAfterDisconnect(c) == FALSE

\* Line 422: if (bConnected)
DisconnectNotifies(c) == c

\* Lines 106-112 and 414-419: without a worker a no-op; otherwise take the mutex
\* and empty Host
DisconnectBegin(bForce) ==
  /\ OwnerIdle
  /\ nCalls < MaxCalls
  /\ nCalls' = nCalls + 1
  /\ IF HasWorker
       THEN /\ target' = [target EXCEPT !.Host = ""]
            /\ opc' = "disc_test"
            /\ disconnectEntry' = [conn |-> bConnected, n |-> Count("Disconnected"),
                                 est |-> nEstablished,
                                 calls |-> disconnectEntry.calls + 1]
            /\ lastCall' = lastCall
       ELSE /\ Returned("Disconnect", "void")
            /\ disconnectEntry' = [disconnectEntry EXCEPT !.calls = @ + 1]
            /\ UNCHANGED << target, opc >>
  /\ UNCHANGED << oarg, client, ownerDestroyed, fault, workerCtl, WakeEvent, queueVars, creds,
                  bStopRequested, bConnected, posted, nDelivered, published, subscribed,
                  subsDone, nDeliveredAtDestroy, connectEntry, passesAfterStop, nEstablished >>

\* Lines 421-426: clear the flag and call NotifyDisconnected on the calling thread
DisconnectTest ==
  /\ opc = "disc_test" /\ fault = "none"
  /\ IF DisconnectNotifies(bConnected)
       THEN /\ bConnected' = FlagAfterDisconnect(bConnected)
            /\ Notify("Disconnected", ClientReason, "", "owner")
       ELSE UNCHANGED << bConnected, posted >>
  /\ opc' = "disc_wake"
  /\ UNCHANGED << client, ownerDestroyed, oarg, lastCall, fault, workerCtl, WakeEvent,
                  queueVars, target, creds, bStopRequested, nDelivered, histVars >>

\* Lines 428-430: wake the worker, release the mutex, return
DisconnectWake ==
  /\ opc = "disc_wake" /\ fault = "none"
  /\ WakeWorker
  /\ opc' = "idle"
  /\ oarg' = NoTarget
  /\ Returned("Disconnect", "void")
  /\ UNCHANGED << client, ownerDestroyed, fault, workerCtl, queueVars, target, creds,
                  bStopRequested, bConnected, posted, nDelivered, histVars >>


(* ------------- UMQTTClient::Publish / Subscribe / Unsubscribe --------- *)
\* Lines 114-121 and 435: without a worker return false, otherwise enqueue
PublishBegin(m) ==
  /\ OwnerIdle
  /\ nCalls < MaxCalls
  /\ nCalls' = nCalls + 1
  /\ IF HasWorker
       THEN /\ OutgoingMessages' = Enqueue(OutgoingMessages, m)
            /\ published' = Append(published, m)
            /\ opc' = "pub_wake"
            /\ lastCall' = lastCall
       ELSE /\ Returned("Publish", "false")
            /\ UNCHANGED << OutgoingMessages, published, opc >>
  /\ UNCHANGED << client, ownerDestroyed, oarg, fault, workerCtl, WakeEvent,
                  SubscriptionRequests, target, creds, bStopRequested, bConnected,
                  posted, nDelivered, subscribed, subsDone, nDeliveredAtDestroy, connectEntry,
                  disconnectEntry, passesAfterStop, nEstablished >>

\* Lines 436-437: WakeWorker, return true
PublishWake ==
  /\ opc = "pub_wake" /\ fault = "none"
  /\ WakeWorker
  /\ opc' = "idle"
  /\ Returned("Publish", "true")
  /\ UNCHANGED << client, ownerDestroyed, oarg, fault, workerCtl, queueVars, target,
                  creds, bStopRequested, bConnected, posted, nDelivered, histVars >>

\* A subscription request is enqueued, or refused for want of a worker
SubRequest(req, wake, name) ==
  /\ OwnerIdle
  /\ nCalls < MaxCalls
  /\ nCalls' = nCalls + 1
  /\ IF HasWorker
       THEN /\ SubscriptionRequests' = Enqueue(SubscriptionRequests, req)
            /\ subscribed' = Append(subscribed, req)
            /\ opc' = wake
            /\ lastCall' = lastCall
       ELSE /\ Returned(name, "false")
            /\ UNCHANGED << SubscriptionRequests, subscribed, opc >>
  /\ UNCHANGED << client, ownerDestroyed, oarg, fault, workerCtl, WakeEvent,
                  OutgoingMessages, target, creds, bStopRequested, bConnected,
                  posted, nDelivered, published, subsDone, nDeliveredAtDestroy, connectEntry,
                  disconnectEntry, passesAfterStop, nEstablished >>

\* Lines 123-130 and 442
SubscribeBegin(f, qos) ==
  SubRequest([TopicFilter |-> f, QoS |-> qos, bSubscribe |-> TRUE], "sub_wake", "Subscribe")

\* Lines 132-139 and 449
UnsubscribeBegin(f) ==
  SubRequest([TopicFilter |-> f, QoS |-> 0, bSubscribe |-> FALSE], "unsub_wake",
             "Unsubscribe")

\* Lines 443-444 and 450-451: WakeWorker, return true
SubWake ==
  /\ opc \in {"sub_wake", "unsub_wake"} /\ fault = "none"
  /\ WakeWorker
  /\ opc' = "idle"
  /\ Returned(IF opc = "sub_wake" THEN "Subscribe" ELSE "Unsubscribe", "true")
  /\ UNCHANGED << client, ownerDestroyed, oarg, fault, workerCtl, queueVars, target,
                  creds, bStopRequested, bConnected, posted, nDelivered, histVars >>

(* ------------------- setters and UMQTTClient::IsConnected ------------- *)
\* A setter stores on the handle and, with a worker, on the worker under its mutex
Setter(name, c, w) ==
  /\ OwnerIdle
  /\ nCalls < MaxCalls
  /\ nCalls' = nCalls + 1
  /\ client' = c
  /\ creds' = IF HasWorker THEN w ELSE creds
  /\ Returned(name, "void")
  /\ UNCHANGED << ownerDestroyed, opc, oarg, fault, workerCtl, WakeEvent, queueVars,
                  target, bStopRequested, bConnected, posted, nDelivered, published,
                  subscribed, subsDone, nDeliveredAtDestroy, connectEntry,
                  disconnectEntry, passesAfterStop,
                  nEstablished >>

\* Lines 141-149 and 465-470
SetCredentials(u, pw) ==
  Setter("SetCredentials", [client EXCEPT !.Username = u, !.Password = pw],
         [creds EXCEPT !.Username = u, !.Password = pw])

\* Lines 151-158 and 459-463
SetClientId(id) ==
  Setter("SetClientId", [client EXCEPT !.ClientId = id], [creds EXCEPT !.ClientId = id])

\* Lines 170-177 and 472-476
SetKeepAlive(k) ==
  Setter("SetKeepAlive", [client EXCEPT !.KeepAliveSeconds = k],
         [creds EXCEPT !.KeepAliveSeconds = k])

\* Lines 160-168 and 454-457: an unlocked read of the worker's flag
IsConnected ==
  /\ OwnerIdle
  /\ Returned("IsConnected", BoolStr(IsConnectedValue))
  /\ UNCHANGED << client, ownerDestroyed, opc, oarg, fault, workerCtl, WakeEvent,
                  queueVars, target, creds, bStopRequested, bConnected, posted,
                  nDelivered, histVars >>


(* --------- UMQTTClient::BeginDestroy and FMQTTWorker::Shutdown -------- *)
\* The shutdown steps leave everything but the stop flag, the event, the thread
\* and the handle alone
ShutdownFrame ==
  UNCHANGED << ownerDestroyed, oarg, fault, wpc, Out, bShutdownComplete, queueVars,
               target, creds, bConnected, posted, nDelivered, histVars >>

\* Lines 179-192: destruction begins (the weak owner pointer no longer resolves);
\* with a worker, Shutdown is entered, without one Impl is reset at once
BeginDestroy ==
  /\ OwnerIdle
  /\ ~ownerDestroyed
  /\ ownerDestroyed' = TRUE
  /\ nDeliveredAtDestroy' = nDelivered
  /\ connectEntry' = connectEntry
  /\ IF HasWorker
       THEN /\ opc' = "sd_stop"
            /\ UNCHANGED << client, lastCall >>
       ELSE /\ client' = [client EXCEPT !.Impl = FALSE]
            /\ Returned("BeginDestroy", "void")
            /\ opc' = opc
  /\ UNCHANGED << oarg, fault, workerCtl, WakeEvent, queueVars, target, creds,
                  bStopRequested, bConnected, posted, nDelivered, published,
                  subscribed, subsDone, nCalls,
                  disconnectEntry, passesAfterStop,
                  nEstablished >>

\* Line 271, FMQTTWorker::Stop line 388: bStopRequested = true
ShutdownStopFlag ==
  /\ opc = "sd_stop" /\ fault = "none"
  /\ bStopRequested' = TRUE
  /\ opc' = "sd_stop_trig"
  /\ UNCHANGED << client, lastCall, Thread, WakeEvent >>
  /\ ShutdownFrame

\* FMQTTWorker::Stop lines 389-392: WakeEvent->Trigger()
ShutdownStopTrigger ==
  /\ opc = "sd_stop_trig" /\ fault = "none"
  /\ WakeWorker
  /\ opc' = "sd_signal"
  /\ UNCHANGED << client, lastCall, Thread, bStopRequested >>
  /\ ShutdownFrame

\* Lines 274-278: bStopRequested = true (again) and WakeEvent->Trigger()
ShutdownSignal ==
  /\ opc = "sd_signal" /\ fault = "none"
  /\ bStopRequested' = TRUE
  /\ WakeWorker
  /\ opc' = "sd_wait"
  /\ UNCHANGED << client, lastCall, Thread >>
  /\ ShutdownFrame

\* Lines 281-299 and 187-190.  The grace loop ends when the worker has set
\* bShutdownComplete, or when a second has passed without it; in the second case
\* Thread->Kill(true) ends the thread where it stands (a Kill that instead waits
\* for Run to return is this step taken once bShutdownComplete is set).  Then the
\* thread and the worker are deleted (the worker's destructor runs Shutdown once
\* more: the stop flag and the event are set again) and Impl is reset.
ShutdownJoinAndDelete ==
  /\ opc = "sd_wait" /\ fault = "none"
  /\ Thread' = IF bShutdownComplete THEN "joined" ELSE "killed"
  /\ bStopRequested' = TRUE
  /\ WakeWorker
  /\ client' = [client EXCEPT !.Worker = FALSE, !.Impl = FALSE]
  /\ opc' = "idle"
  /\ Returned("BeginDestroy", "void")
  /\ ShutdownFrame

(* -------------------------- FMQTTWorker::Run -------------------------- *)
WorkerRunsUntilJoined == Thread \in {"running", "killed"} /\ fault = "none"

\* The thread created by Start executes Run until it returns or Shutdown has ended
\* it (Thread->Kill(true); delete Thread)
WorkerRuns == Thread = "running" /\ fault = "none"

LoopContinuesUntilComplete == ~bShutdownComplete

\* Line 319: while (!bStopRequested)
LoopContinues == ~bStopRequested

NeedsConnectAlways(c) == TRUE

\* Line 334, first operand: !bConnected
NeedsConnect(c) == ~c

\* A worker step that only moves within Run
WorkerFrame ==
  UNCHANGED << ownerVars, Thread, target, creds, bStopRequested, published,
               subscribed, nCalls, nDeliveredAtDestroy, connectEntry,
               disconnectEntry, nDelivered >>

\* Line 319: the loop test
WorkerLoopTest ==
  /\ WorkerRuns /\ wpc = "loop_test"
  /\ wpc' = IF LoopContinues THEN "wait" ELSE "exit"
  /\ UNCHANGED << WakeEvent, queueVars, bConnected, bShutdownComplete, Out, posted,
                  subsDone, passesAfterStop >>
  /\ nEstablished' = nEstablished
  /\ WorkerFrame

\* Line 325: WakeEvent->Wait(200) returns because the event is signalled (and
\* resets it)
WorkerWaitSignalled ==
  /\ WorkerRuns /\ wpc = "wait"
  /\ WakeEvent
  /\ WakeEvent' = FALSE
  /\ wpc' = "chk_conn"
  /\ passesAfterStop' = IF bStopRequested THEN passesAfterStop + 1 ELSE passesAfterStop
  /\ UNCHANGED << queueVars, bConnected, bShutdownComplete, Out, posted, subsDone >>
  /\ nEstablished' = nEstablished
  /\ WorkerFrame

\* Line 325: WakeEvent->Wait(200) returns because 200 ms have passed
WorkerWaitTimeout ==
  /\ WorkerRuns /\ wpc = "wait"
  /\ ~WakeEvent
  /\ wpc' = "chk_conn"
  /\ passesAfterStop' = IF bStopRequested THEN passesAfterStop + 1 ELSE passesAfterStop
  /\ UNCHANGED << WakeEvent, queueVars, bConnected, bShutdownComplete, Out, posted,
                  subsDone >>
  /\ nEstablished' = nEstablished
  /\ WorkerFrame

\* Line 334: the read of bConnected
WorkerCheckConnected ==
  /\ WorkerRuns /\ wpc = "chk_conn"
  /\ wpc' = IF NeedsConnect(bConnected) THEN "chk_host" ELSE "drain_out"
  /\ UNCHANGED << WakeEvent, queueVars, bConnected, bShutdownComplete, Out, posted,
                  subsDone, passesAfterStop >>
  /\ nEstablished' = nEstablished
  /\ WorkerFrame

\* Line 334: the read of Host, made without the mutex
WorkerCheckHost ==
  /\ WorkerRuns /\ wpc = "chk_host"
  /\ wpc' = IF target.Host # "" THEN "set_conn" ELSE "drain_out"
  /\ UNCHANGED << WakeEvent, queueVars, bConnected, bShutdownComplete, Out, posted,
                  subsDone, passesAfterStop >>
  /\ nEstablished' = nEstablished
  /\ WorkerFrame

\* Line 346: bConnected = true
WorkerSetConnected ==
  /\ WorkerRuns /\ wpc = "set_conn"
  /\ bConnected' = TRUE
  /\ nEstablished' = nEstablished + 1
  /\ wpc' = "notify_conn"
  /\ UNCHANGED << WakeEvent, queueVars, bShutdownComplete, Out, posted, subsDone,
                  passesAfterStop >>
  /\ WorkerFrame

\* Line 347: NotifyConnected()
WorkerNotifyConnected ==
  /\ WorkerRuns /\ wpc = "notify_conn"
  /\ Notify("Connected", "", "", "worker")
  /\ wpc' = "drain_out"
  /\ UNCHANGED << WakeEvent, queueVars, bConnected, bShutdownComplete, Out, subsDone,
                  passesAfterStop >>
  /\ nEstablished' = nEstablished
  /\ WorkerFrame

\* Line 354: while (OutgoingMessages.Dequeue(Out)), followed by the 5 ms sleep
WorkerDequeueOut ==
  /\ WorkerRuns /\ wpc = "drain_out"
  /\ IF OutgoingMessages # << >>
       THEN /\ Out' = Dequeue(OutgoingMessages).item
            /\ OutgoingMessages' = Dequeue(OutgoingMessages).rest
            /\ wpc' = "echo"
       ELSE /\ wpc' = "drain_sub"
            /\ UNCHANGED << Out, OutgoingMessages >>
  /\ UNCHANGED << WakeEvent, SubscriptionRequests, bConnected, bShutdownComplete,
                  posted, subsDone, passesAfterStop >>
  /\ nEstablished' = nEstablished
  /\ WorkerFrame

\* Line 364: NotifyMessageReceived(Out.Topic, Out.Payload)
WorkerEcho ==
  /\ WorkerRuns /\ wpc = "echo"
  /\ Notify("MessageReceived", Out.Topic, Out.Payload, "worker")
  /\ wpc' = "drain_out"
  /\ UNCHANGED << WakeEvent, queueVars, bConnected, bShutdownComplete, Out, subsDone,
                  passesAfterStop >>
  /\ nEstablished' = nEstablished
  /\ WorkerFrame

\* Lines 369-374: while (SubscriptionRequests.Dequeue(SubReq)): log only
WorkerDequeueSub ==
  /\ WorkerRuns /\ wpc = "drain_sub"
  /\ IF SubscriptionRequests # << >>
       THEN /\ subsDone' = Append(subsDone, Dequeue(SubscriptionRequests).item)
            /\ SubscriptionRequests' = Dequeue(SubscriptionRequests).rest
            /\ wpc' = wpc
       ELSE /\ wpc' = "loop_test"
            /\ UNCHANGED << subsDone, SubscriptionRequests >>
  /\ UNCHANGED << WakeEvent, OutgoingMessages, bConnected, bShutdownComplete, Out,
                  posted, passesAfterStop >>
  /\ nEstablished' = nEstablished
  /\ WorkerFrame

\* Lines 380-382: bShutdownComplete = true; return 0
WorkerExit ==
  /\ WorkerRuns /\ wpc = "exit"
  /\ bShutdownComplete' = TRUE
  /\ wpc' = "done"
  /\ UNCHANGED << WakeEvent, queueVars, bConnected, Out, posted, subsDone,
                  passesAfterStop >>
  /\ nEstablished' = nEstablished
  /\ WorkerFrame

(* ---------------------- game thread task queue ------------------------ *)
\* The game thread, between calls, runs the oldest posted closure: the closure
\* calls Broadcast through the raw owner pointer it captured.  Once destruction
\* has begun that pointer is stale: the callback runs on the dying object, or the
\* access crashes.
DeliverTask ==
  /\ OwnerIdle
  /\ nDelivered < Len(posted)
  /\ nDelivered' = nDelivered + 1
  /\ \/ fault' = fault
     \/ ownerDestroyed /\ fault' = "callback: stale owner"
  /\ UNCHANGED << client, ownerDestroyed, opc, oarg, lastCall, workerCtl, WakeEvent,
                  queueVars, target, creds, bStopRequested, bConnected, posted,
                  histVars >>

Next ==
  \/ \E t \in Targets, ok \in BOOLEAN : ConnectBegin(t, ok)
  \/ ConnectFinish
  \/ \E f \in BOOLEAN : DisconnectBegin(f)
  \/ DisconnectTest
  \/ DisconnectWake
  \/ \E m \in Msgs : PublishBegin(m)
  \/ PublishWake
  \/ \E f \in Filters, q \in {1} : SubscribeBegin(f, q)
  \/ \E f \in Filters : UnsubscribeBegin(f)
  \/ SubWake
  \/ SetCredentials("user", "secret")
  \/ SetClientId("ue-client")
  \/ SetKeepAlive(30)
  \/ IsConnected
  \/ BeginDestroy
  \/ ShutdownStopFlag
  \/ ShutdownStopTrigger
  \/ ShutdownSignal
  \/ ShutdownJoinAndDelete
  \/ WorkerLoopTest
  \/ WorkerWaitSignalled
  \/ WorkerWaitTimeout
  \/ WorkerCheckConnected
  \/ WorkerCheckHost
  \/ WorkerSetConnected
  \/ WorkerNotifyConnected
  \/ WorkerDequeueOut
  \/ WorkerEcho
  \/ WorkerDequeueSub
  \/ WorkerExit
  \/ DeliverTask

Spec == Init /\ [][Next]_vars

(* ------------------------- fair specification ------------------------- *)
\* The worker thread's next step in Run
WorkerStep ==
  \/ WorkerLoopTest
  \/ WorkerWaitSignalled
  \/ WorkerWaitTimeout
  \/ WorkerCheckConnected
  \/ WorkerCheckHost
  \/ WorkerSetConnected
  \/ WorkerNotifyConnected
  \/ WorkerDequeueOut
  \/ WorkerEcho
  \/ WorkerDequeueSub
  \/ WorkerExit

\* The game thread's next step inside the owner-context call it has entered
OwnerContinues ==
  \/ ConnectFinish
  \/ DisconnectTest
  \/ DisconnectWake
  \/ PublishWake
  \/ ShutdownStopFlag
  \/ ShutdownStopTrigger
  \/ ShutdownSignal
  \/ ShutdownJoinAndDelete

\* Connect, Disconnect, Publish, IsConnected and BeginDestroy, the worker and the
\* game thread's task queue
LiveNext ==
  \/ nCalls < MaxLiveCalls /\ \E t \in Targets, ok \in BOOLEAN : ConnectBegin(t, ok)
  \/ nCalls < MaxLiveCalls /\ \E f \in BOOLEAN : DisconnectBegin(f)
  \/ nCalls < MaxLiveCalls /\ \E m \in Msgs : PublishBegin(m)
  \/ IsConnected
  \/ BeginDestroy
  \/ OwnerContinues
  \/ WorkerStep
  \/ DeliverTask

\* The worker is a thread of its own and the operating system schedules it; a call
\* the game thread has entered is straight-line code and runs on; the game thread
\* runs the tasks posted to it.  Whether the owner makes another call is up to it.
LiveSpec ==
  /\ Init
  /\ [][LiveNext]_vars
  /\ WF_vars(WorkerStep)
  /\ WF_vars(OwnerContinues)
  /\ WF_vars(DeliverTask)


(* --------------- fair specification without the timeout --------------- *)
\* The worker thread's next step in Run when WakeEvent->Wait returns only because
\* the event is signalled
WorkerStepWhenWoken ==
  \/ WorkerLoopTest
  \/ WorkerWaitSignalled
  \/ WorkerCheckConnected
  \/ WorkerCheckHost
  \/ WorkerSetConnected
  \/ WorkerNotifyConnected
  \/ WorkerDequeueOut
  \/ WorkerEcho
  \/ WorkerDequeueSub
  \/ WorkerExit

\* The game thread's next step inside a Connect, Publish, Subscribe, Unsubscribe or
\* BeginDestroy it has entered
EnqueuerContinues ==
  \/ ConnectFinish
  \/ PublishWake
  \/ SubWake
  \/ ShutdownStopFlag
  \/ ShutdownStopTrigger
  \/ ShutdownSignal
  \/ ShutdownJoinAndDelete

\* Connect, Publish, Subscribe, Unsubscribe and BeginDestroy, the worker with a
\* wait that never times out, and the game thread's task queue
WakeNext ==
  \/ nCalls < MaxLiveCalls /\ \E t \in Targets, ok \in BOOLEAN : ConnectBegin(t, ok)
  \/ nCalls < MaxLiveCalls /\ \E m \in Msgs : PublishBegin(m)
  \/ nCalls < MaxLiveCalls /\ \E f \in Filters, q \in {1} : SubscribeBegin(f, q)
  \/ nCalls < MaxLiveCalls /\ \E f \in Filters : UnsubscribeBegin(f)
  \/ BeginDestroy
  \/ EnqueuerContinues
  \/ WorkerStepWhenWoken
  \/ DeliverTask

\* As LiveSpec, but the worker leaves its wait only when the event is signalled
WakeSpec ==
  /\ Init
  /\ [][WakeNext]_vars
  /\ WF_vars(WorkerStepWhenWoken)
  /\ WF_vars(EnqueuerContinues)
  /\ WF_vars(DeliverTask)

(* ------------------------- FMQTTWorker::Mutex ------------------------- *)
\* FMQTTWorker::Disconnect holds the FScopeLock from its first statement to its
\* return (lines 416-430); Connect and the setters take and release it within one
\* step of this model.  Run declares no FScopeLock.
OwnerHoldsMutex == opc \in {"disc_test", "disc_wake"}

\* The worker's next statement reads bConnected or Host (line 334) or writes
\* bConnected (line 346)
WorkerAtSharedAccess == wpc \in {"chk_conn", "chk_host", "set_conn"}

(* ============================ properties ============================== *)
IsMsg(t) == t.kind = "MessageReceived"
\* The MessageReceived notifications posted so far, in posting order
Echoed == SelectSeq(posted, IsMsg)
\* The accepted messages the worker still holds: the one it has dequeued and not
\* yet echoed, then the queue
Held == (IF wpc = "echo" THEN << Out >> ELSE << >>) \o OutgoingMessages
\* A Connected notification has been posted (within the first n tasks) and no
\* Disconnected has been posted after it
ConnectedStands(n) ==
  \E i \in 1..n :
    /\ posted[i].kind = "Connected"
    /\ \A j \in (i + 1)..Len(posted) : posted[j].kind # "Disconnected"
\* Disconnect has returned and no other owner-context call has been made since
DisconnectReturned == opc = "idle" /\ lastCall.call = "Disconnect"
\* Shutdown has set the stop flag and triggered the wake event (Stop has returned)
StopSignalled == opc \in {"sd_signal", "sd_wait"}

\* C1: the MessageReceived echoes are posted in exactly the order of the accepted
\* Publish calls: the echoes are a prefix of the accepted messages and, while the
\* owner lives, the rest is what the worker still holds, in the same order.
C1_FifoEcho ==
  /\ Len(Echoed) <= Len(published)
  /\ \A i \in 1..Len(Echoed) :
       /\ Echoed[i].a = published[i].Topic
       /\ Echoed[i].b = published[i].Payload
  /\ ~ownerDestroyed =>
       SubSeq(published, Len(Echoed) + 1, Len(published)) = Held

C1_Witness ==
  /\ Len(published) = 2
  /\ published[1] # published[2]
  /\ Len(Echoed) = 2

\* C2: the worker sets bConnected only from the disconnected state, so there is
\* one establishment, and at most one Connected notification, per connected
\* period: establishments = flag clears by Disconnect (+ 1 while connected).
C2_OneConnectedPerPeriod ==
  /\ Count("Connected") <= nEstablished
  /\ nEstablished = Count("Disconnected") + (IF bConnected THEN 1 ELSE 0)

\* Two Connect calls (a host, then an empty host) and nothing else; the worker has
\* connected once and has run through its loop again since
C2_Witness ==
  /\ opc = "idle" /\ lastCall = [call |-> "Connect", value |-> "true"]
  /\ nCalls = 2
  /\ target.Host = ""
  /\ bConnected
  /\ Count("Connected") = 1
  /\ wpc = "wait" /\ ~WakeEvent

\* C3: once BeginDestroy has begun, the game thread runs no notification callback
\* on the owner.
C3_NoCallbackAfterDestroy == ownerDestroyed => nDelivered = nDeliveredAtDestroy

\* C4: after Disconnect has returned, IsConnected() returns false.
C4_DisconnectedAfterDisconnect == DisconnectReturned => ~IsConnectedValue

\* C5 (as claimed): IsConnected() is true only if an OnConnected has been delivered
\* to the owner and no Disconnected has been posted since.
C5_TrueOnlyAfterOnConnected == IsConnectedValue => ConnectedStands(nDelivered)

\* C5 (amended): IsConnected() is true only if the worker has set the flag and the
\* Connected notification of that period is posted (delivered or not) or is the
\* worker's next step, with no Disconnected posted after it.
C5_TrueOnlyAfterEstablished ==
  (IsConnectedValue /\ ~ownerDestroyed) =>
     (wpc = "notify_conn" \/ ConnectedStands(Len(posted)))

\* IsConnected() has returned true while the Connected notification is posted and
\* not yet delivered
C5_Witness ==
  /\ lastCall = [call |-> "IsConnected", value |-> "true"]
  /\ Count("Connected") = 1
  /\ nDelivered = 0

\* C6: every Disconnected notification carries the client reason; a Disconnect
\* entered while connected posts exactly one; a Disconnect entered while not
\* connected posts none unless the worker has connected anew meanwhile; there are
\* never more Disconnected notifications than establishments.
C6_OneDisconnectedPerDisconnect ==
  /\ \A i \in 1..Len(posted) :
       posted[i].kind = "Disconnected" => posted[i].a = ClientReason
  /\ Count("Disconnected") <= nEstablished
  /\ Count("Disconnected") >= disconnectEntry.n
  /\ DisconnectReturned =>
       IF disconnectEntry.conn
         THEN Count("Disconnected") = disconnectEntry.n + 1
         ELSE /\ Count("Disconnected") <= disconnectEntry.n + 1
              /\ nEstablished = disconnectEntry.est =>
                   Count("Disconnected") = disconnectEntry.n

\* A second Disconnect, entered after the first one disconnected, has returned and
\* has posted nothing
C6_Witness ==
  /\ DisconnectReturned
  /\ ~disconnectEntry.conn
  /\ disconnectEntry.n = 1
  /\ nEstablished = 1
  /\ Count("Disconnected") = 1

\* C7: once BeginDestroy has released the implementation, no owner-context call
\* faults or creates a worker, and each call that returns a value returns false.
C7_PostDestroyCallsAreNoOps ==
  /\ fault # "Connect: null Impl"
  /\ ~client.Impl =>
       /\ ~client.Worker
       /\ lastCall.call \in {"Connect", "Publish", "Subscribe", "Unsubscribe",
                             "IsConnected"} => lastCall.value = "false"

\* C8: every notification is emitted by the worker thread.
C8_NotifyOnlyFromWorker == \A i \in 1..Len(posted) : posted[i].by = "worker"

\* C9: the worker sets bConnected only while the recorded host is non-empty.
C9_NoConnectWithEmptyHost ==
  [][(bConnected' /\ ~bConnected) => target.Host # ""]_vars

\* C10: with the stop flag set the worker begins at most one further pass, and
\* once Shutdown has triggered the event a worker waiting in that pass finds the
\* event signalled: its exit does not wait for the 200 ms timeout.
C10_PromptExit ==
  /\ passesAfterStop <= 1
  /\ (StopSignalled /\ Thread = "running" /\ wpc = "wait") => WakeEvent

\* The worker began one pass after the stop flag was set, finished it and left
\* the loop by itself
C10_Witness ==
  /\ passesAfterStop = 1
  /\ bShutdownComplete
  /\ Thread = "joined"

\* Shutdown has returned: the thread has been joined or killed, and deleted
ShutdownReturned == Thread \in {"joined", "killed"}

\* C11: once Shutdown has returned (the thread joined, or killed where it stood),
\* the worker takes no further step: its position, its local message, both queues,
\* the connected flag, the completion flag and the posted notifications stay as
\* they are.
C11_NoWorkerStepAfterShutdown ==
  [][ShutdownReturned =>
       /\ wpc' = wpc
       /\ Out' = Out
       /\ OutgoingMessages' = OutgoingMessages
       /\ SubscriptionRequests' = SubscriptionRequests
       /\ subsDone' = subsDone
       /\ bConnected' = bConnected
       /\ bShutdownComplete' = bShutdownComplete
       /\ posted' = posted]_vars

\* Shutdown killed the worker between dequeuing a message and echoing it, with
\* another message still queued
C11_Witness ==
  /\ Thread = "killed"
  /\ wpc = "echo"
  /\ OutgoingMessages # << >>
  /\ opc = "idle" /\ lastCall.call = "BeginDestroy"

\* Connect has returned false and no other owner-context call has been made since
ConnectFailed == opc = "idle" /\ lastCall = [call |-> "Connect", value |-> "false"]

\* C12: when the thread fails to start, Connect returns false and leaves no worker:
\* no worker instance and no thread, IsConnected() false; in the no-worker state
\* Publish, Subscribe, Unsubscribe and IsConnected return false; and the next
\* Connect creates a worker anew.
C12_FailedStartLeavesNoWorker ==
  /\ [](/\ ConnectFailed =>
            (~client.Worker /\ client.Impl /\ Thread = "none" /\ ~IsConnectedValue)
        /\ (opc = "idle" /\ ~HasWorker
               /\ lastCall.call \in {"Publish", "Subscribe", "Unsubscribe", "IsConnected"})
             => lastCall.value = "false")
  /\ [][(ConnectFailed /\ opc' = "connect_cfg") =>
          (client'.Worker /\ Thread' = "running" /\ wpc' = "loop_test")]_vars

\* Connect to a host has returned false
C12_Witness ==
  /\ ConnectFailed
  /\ client.Broker = "10.0.0.1"
  /\ ~client.Worker

\* Connect with a non-empty host has returned true and no other owner-context call
\* has been made since
ConnectAccepted ==
  /\ opc = "idle"
  /\ lastCall = [call |-> "Connect", value |-> "true"]
  /\ target.Host # ""

\* The last accepted Connect named a host, no Disconnect has been called since and
\* destruction has not begun
ConnectStands ==
  /\ connectEntry.accepted
  /\ connectEntry.host # ""
  /\ disconnectEntry.calls = connectEntry.calls
  /\ ~ownerDestroyed

\* The Connected notifications the worker has emitted since the last Connect was
\* accepted
ConnectedSinceAccepted ==
  Cardinality({ i \in (connectEntry.n + 1)..Len(posted) : posted[i].kind = "Connected" })

\* C13: after a Connect with a non-empty host is accepted, and absent a later
\* Disconnect or shutdown, the worker emits exactly one OnConnected: never a
\* second one.
C13_OneOnConnectedPerConnect == ConnectStands => ConnectedSinceAccepted <= 1

\* OnConnected (no arguments) has been delivered to the owner with no Disconnected
\* posted after it, and IsConnected() returns true
OnConnectedThenTrue ==
  /\ \E i \in 1..nDelivered :
       /\ posted[i] = Task("Connected", "", "", "worker")
       /\ \A j \in (i + 1)..Len(posted) : posted[j].kind # "Disconnected"
  /\ IsConnectedValue

\* C13, the eventual delivery alone: after a Connect with a non-empty host is
\* accepted, unless the recorded host is emptied afterwards (by Disconnect or by a
\* Connect with an empty host) or destruction begins, an OnConnected is eventually
\* delivered and IsConnected() returns true.
C13_EventuallyConnected ==
  ConnectAccepted ~> (OnConnectedThenTrue \/ target.Host = "" \/ ownerDestroyed)

\* The MessageReceived notifications the game thread has delivered, in order
DeliveredEchoes == SelectSeq(SubSeq(posted, 1, nDelivered), IsMsg)

\* C14: every accepted Publish is eventually followed by the delivery of a
\* MessageReceived notification carrying its topic and payload (the i-th accepted
\* message by the i-th notification), unless destruction (and with it the
\* worker's shutdown) begins first.
C14_PublishEventuallyEchoed ==
  \A i \in 1..MaxLiveCalls :
    (Len(published) >= i) ~>
      \/ ownerDestroyed
      \/ /\ Len(DeliveredEchoes) >= i
         /\ DeliveredEchoes[i].a = published[i].Topic
         /\ DeliveredEchoes[i].b = published[i].Payload

\* The worker has connected, then a published message has been echoed, and both
\* notifications have been delivered, in that order
C14_Witness ==
  /\ bConnected
  /\ Len(published) = 1
  /\ nDelivered = 2
  /\ posted[1].kind = "Connected"
  /\ posted[2] = Task("MessageReceived", published[1].Topic, published[1].Payload,
                      "worker")
  /\ ~ownerDestroyed

\* C15: a Publish, Subscribe or Unsubscribe made while the handle is alive is
\* accepted even when no worker exists yet: the call creates the worker and
\* returns true, so the request is not lost.
C15_RequestBeforeWorkerAccepted ==
  (opc = "idle" /\ ~ownerDestroyed
     /\ lastCall.call \in {"Publish", "Subscribe", "Unsubscribe"})
    => (lastCall.value = "true" /\ client.Worker)

\* No Connect has been accepted yet (none called, or none that started a worker
\* and returned), or BeginDestroy has returned
BeforeConnectOrAfterShutdown ==
  \/ ~connectEntry.accepted
  \/ ownerDestroyed /\ opc = "idle"

\* C16: before the first Connect and after BeginDestroy has returned,
\* IsConnected() is false: the value it would return is false in every such
\* state, and a call made there has returned false.
C16_FalseBeforeConnectAndAfterShutdown ==
  BeforeConnectOrAfterShutdown =>
    /\ ~IsConnectedValue
    /\ lastCall.call = "IsConnected" => lastCall.value = "false"

\* IsConnected() has returned false after a shutdown that found the worker
\* connected
C16_Witness ==
  /\ lastCall = [call |-> "IsConnected", value |-> "false"]
  /\ ownerDestroyed /\ ~client.Impl
  /\ bConnected

\* Subscribe or Unsubscribe has returned and no other owner-context call has been
\* made since
SubCallReturned == opc = "idle" /\ lastCall.call \in {"Subscribe", "Unsubscribe"}

\* C17: with a worker present Subscribe and Unsubscribe return true (false only
\* without one); the worker dequeues the requests in the order they were accepted;
\* and dequeuing a request posts no notification and leaves the connected flag and
\* the outgoing-message queue alone.
C17_SubscriptionsAcceptedFifoNoEffect ==
  /\ [](/\ SubCallReturned => (lastCall.value = "true" <=> HasWorker)
        /\ subscribed = subsDone \o SubscriptionRequests)
  /\ [][subsDone' # subsDone =>
          /\ subsDone' = Append(subsDone, Head(SubscriptionRequests))
          /\ posted' = posted
          /\ bConnected' = bConnected
          /\ OutgoingMessages' = OutgoingMessages
          /\ Out' = Out]_vars

\* After a Connect, a Subscribe and then an Unsubscribe were accepted; the worker
\* has connected and has dequeued both requests
C17_Witness ==
  /\ Len(subsDone) = 2
  /\ subsDone[1].bSubscribe /\ ~subsDone[2].bSubscribe
  /\ bConnected
  /\ nCalls = 3

\* C18: the worker echoes a dequeued message as MessageReceived only if it is
\* connected at that moment.
C18_EchoOnlyWhileConnected ==
  [][Len(Echoed') > Len(Echoed) => bConnected]_vars

\* C19: the connected flag is changed only by a step of the worker thread, never
\* by a step of an owner-context call.
C19_FlagChangedOnlyByWorker ==
  [][bConnected' # bConnected => (wpc' # wpc /\ opc' = opc)]_vars

\* C20: every access to the target fields and the connected flag is made with
\* the worker's mutex held; so while an owner-context call holds the mutex, the
\* worker does not execute its read of bConnected, its read of Host or its write
\* of bConnected.
C20_SharedAccessUnderMutex ==
  [][(OwnerHoldsMutex /\ WorkerAtSharedAccess) => wpc' = wpc]_vars

\* C21: no wake-up is lost.  Publish, Subscribe and Unsubscribe leave the event
\* signalled when they return, after their enqueue; and, with a wait that never
\* times out, every accepted message is eventually dequeued and echoed and every
\* accepted subscription request is eventually dequeued, unless destruction begins.
C21_NoLostWakeup ==
  /\ [][(opc \in {"pub_wake", "sub_wake", "unsub_wake"} /\ opc' = "idle")
          => WakeEvent']_vars
  /\ \A i \in 1..MaxLiveCalls :
       (Len(published) >= i) ~>
         (ownerDestroyed
            \/ (Len(published) - Len(OutgoingMessages) >= i /\ Len(Echoed) >= i))
  /\ \A i \in 1..MaxLiveCalls :
       (Len(subscribed) >= i) ~> (ownerDestroyed \/ Len(subsDone) >= i)

\* The worker is blocked in its wait, the event not signalled, and Publish has
\* enqueued a message and is about to trigger the event
C21_Witness ==
  /\ Thread = "running" /\ wpc = "wait" /\ ~WakeEvent
  /\ opc = "pub_wake"
  /\ OutgoingMessages # << >>

\* The worker goes from the connection test of a loop pass to its drain loops,
\* having posted nothing in this pass
BeginsDrainOfLaterPass == wpc \in {"chk_conn", "chk_host"} /\ wpc' = "drain_out"

\* C22: when the worker begins to drain its queues in a loop pass, every
\* notification it emitted in an earlier pass has been delivered to the (living)
\* owner.
C22_DeliveredBeforeLaterDrain ==
  [][(BeginsDrainOfLaterPass /\ ~ownerDestroyed) =>
       \A i \in (nDelivered + 1)..Len(posted) : posted[i].by # "worker"]_vars

IsConnEvent(t) == t.kind \in {"Connected", "Disconnected"}
\* The Connected and Disconnected notifications posted so far, in posting order
ConnEvents == SelectSeq(posted, IsConnEvent)

\* C23: the Connected and Disconnected notifications are posted in strict
\* alternation, starting with Connected.
C23_ConnectedDisconnectedAlternate ==
  \A i \in 1..Len(ConnEvents) :
    ConnEvents[i].kind = IF i % 2 = 1 THEN "Connected" ELSE "Disconnected"

\* The worker instance and everything it owns
workerState ==
  << Thread, wpc, Out, WakeEvent, OutgoingMessages, SubscriptionRequests, target,
     creds, bStopRequested, bConnected, bShutdownComplete >>

\* C24: a handle has at most one worker and one worker thread: it has a worker
\* exactly while its thread runs; a Connect made with a worker present creates
\* nothing and leaves the worker as it is; no step of Disconnect touches the
\* worker pointer or the thread; and the worker and its thread go away only in
\* BeginDestroy's shutdown.
C24_OneWorkerPerHandle ==
  /\ [](/\ client.Worker <=> Thread = "running"
        /\ client.Worker => client.Impl)
  /\ [][(opc = "idle" /\ opc' = "connect_cfg" /\ client.Worker) =>
          (client'.Worker /\ workerState' = workerState)]_vars
  /\ [][(opc \in {"disc_test", "disc_wake"} \/ opc' \in {"disc_test", "disc_wake"}) =>
          (client'.Worker = client.Worker /\ Thread' = Thread)]_vars
  /\ [][((client.Worker /\ ~client'.Worker) \/ (Thread = "running" /\ Thread' # "running"))
          => (opc = "sd_wait" /\ ownerDestroyed)]_vars

\* Connect, Disconnect and Connect again have returned; the worker created by the
\* first Connect is the one that runs
C24_Witness ==
  /\ opc = "idle" /\ lastCall = [call |-> "Connect", value |-> "true"]
  /\ nCalls = 3
  /\ disconnectEntry.calls = 1 /\ connectEntry.calls = 1
  /\ client.Worker /\ Thread = "running"
  /\ nEstablished = 2

\* What a Disconnect that does not disconnect leaves alone
disconnectFrame ==
  << bConnected, posted, OutgoingMessages, SubscriptionRequests, creds,
     target.Port, target.bUseTLS >>

\* C25: a Disconnect entered while the connected flag is clear posts no
\* Disconnected notification.
C25_NoDisconnectedWhenCalledDisconnected ==
  (DisconnectReturned /\ HasWorker /\ ~disconnectEntry.conn)
    => Count("Disconnected") = disconnectEntry.n

\* C25, the steps of Disconnect taken one by one: a Disconnect that finds the
\* connected flag clear when it tests it (line 422) posts no Disconnected
\* notification and leaves the flag alone; the call's
\* other steps only empty the recorded host and signal the wake event; none of
\* them touches the queues, the credentials or the other target fields.
C25_DisconnectFindingFlagClear ==
  /\ [][(opc = "idle" /\ opc' = "disc_test") =>
          (target'.Host = "" /\ WakeEvent' = WakeEvent
             /\ disconnectFrame' = disconnectFrame)]_vars
  /\ [][(opc = "disc_test" /\ opc' = "disc_wake" /\ ~bConnected) =>
          (target' = target /\ WakeEvent' = WakeEvent
             /\ disconnectFrame' = disconnectFrame)]_vars
  /\ [][(opc = "disc_wake" /\ opc' = "idle") =>
          (target' = target /\ WakeEvent' /\ disconnectFrame' = disconnectFrame)]_vars

=============================================================================
